---- MODULE Spec2Model ----
(***************************************************************************)
(* Model of number_tileset.py: the tile labeller (number_tileset), the     *)
(* console reference grid (print_tile_reference) and the script entry      *)
(* point.  Strings are sequences of one-character strings, so that         *)
(* formatting (f"{n:3d}") and os.path.splitext are computed character by   *)
(* character.                                                              *)
(***************************************************************************)
EXTENDS Integers, Sequences, FiniteSets, TLC

VARIABLES
    entry,          \* which function the run was started through
    pc,             \* position of the single thread of control
    fs,             \* the files: path -> image content
    dirs,           \* the directories that exist (besides "" and "/")
    tileset_path,   \* argument tileset_path / the entry point's tileset_path
    out_arg,        \* the output_path argument as passed by the caller
    output_path,    \* the local output_path (reassigned at line 62)
    width, height,  \* arguments of print_tile_reference / locals of the entry point
    tile_size,      \* argument tile_size of print_tile_reference
    img,            \* number_tileset: the loaded image
    numbered_img,   \* number_tileset: the copy being drawn on
    row, col,       \* loop variables
    tile_number,    \* the running counter
    row_str,        \* print_tile_reference: the line being built
    out,            \* standard output, one entry per printed line (or group)
    ret,            \* what number_tileset returned: "unset", "True", "False"
    exc,            \* the exception in flight: "none", "FileNotFoundError", "Exception"
    excAt,          \* the statement that raised it (its traceback)
    handle_open,    \* the entry point's `with Image.open(...)` handle is open
    writes,         \* paths the program has written, in order
    calls,          \* number of calls of number_tileset started so far
    fs0             \* the files as they were when the run started

vars == <<entry, pc, fs, dirs, tileset_path, out_arg, output_path, width, height,
          tile_size, img, numbered_img, row, col, tile_number, row_str, out,
          ret, exc, excAt, handle_open, writes, calls, fs0>>

----------------------------------------------------------------------------
(* Bounds *)

\* print_tile_reference is explored for grids of up to MaxCols x MaxRows cells
MaxCols == 10
MaxRows == 10
\* images on disk have up to MaxImgCols x MaxImgCols whole cells
MaxImgCols == 3
\* paths are built from at most MaxPieces pieces of PathPieces
MaxPieces == 3
\* number_tileset is called at most MaxCalls times in a row on the same arguments
MaxCalls == 2

----------------------------------------------------------------------------
(* Strings *)

None == <<"None">>
NoImage == [width |-> 0, height |-> 0, marks |-> <<"NoImage">>]

DigitChars == <<"0", "1", "2", "3", "4", "5", "6", "7", "8", "9">>

RECURSIVE Str(_)
\* str(n) for n >= 0
Str(n) == IF n < 10 THEN <<DigitChars[n + 1]>>
          ELSE Str(n \div 10) \o <<DigitChars[(n % 10) + 1]>>

RECURSIVE PadLeft(_, _)
PadLeft(s, w) == IF Len(s) >= w THEN s ELSE PadLeft(<<" ">> \o s, w)

\* f"{n:3d}" with the width written out: right-justified, at least w wide
FormatD(n, w) == PadLeft(Str(n), w)

\* the field without its padding, as f"{tile_number} " would give
TileFieldUnpadded(n) == Str(n) \o <<" ">>

\* f"{tile_number:3d} "
TileField(n) == FormatD(n, 3) \o <<" ">>

\* f"Row {row+1:2d}: "
RowPrefix(r) == <<"R", "o", "w", " ">> \o FormatD(r + 1, 2) \o <<":", " ">>

----------------------------------------------------------------------------
(* The grid *)

TileSize == 16

TilesPerRow(w, ts) == w \div ts
TilesPerCol(h, ts) == h \div ts

----------------------------------------------------------------------------
(* print_tile_reference(width, height, tile_size=16) *)

Return(e) == IF e = "main" THEN "m_call_nt" ELSE "done"

PTR_Header ==
    /\ pc = "ptr_header"
    /\ out' = Append(out, [k |-> "grid_header"])
    /\ tile_number' = 1
    /\ row' = 0
    /\ pc' = "ptr_row"
    /\ UNCHANGED <<entry, fs, dirs, tileset_path, out_arg, output_path, width,
                   height, tile_size, img, numbered_img, col, row_str, ret, exc,
                   excAt, handle_open, writes, calls, fs0>>

PTR_Row ==
    /\ pc = "ptr_row"
    /\ IF row < TilesPerCol(height, tile_size)
       THEN /\ row_str' = RowPrefix(row)
            /\ col' = 0
            /\ pc' = "ptr_col"
       ELSE /\ pc' = "ptr_total"
            /\ UNCHANGED <<row_str, col>>
    /\ UNCHANGED <<entry, fs, dirs, tileset_path, out_arg, output_path, width,
                   height, tile_size, img, numbered_img, row, tile_number, out,
                   ret, exc, excAt, handle_open, writes, calls, fs0>>

PTR_Col ==
    /\ pc = "ptr_col"
    /\ IF col < TilesPerRow(width, tile_size)
       THEN /\ row_str' = row_str \o TileField(tile_number)
            /\ tile_number' = tile_number + 1
            /\ col' = col + 1
            /\ UNCHANGED <<pc, out, row>>
       ELSE /\ out' = Append(out, [k |-> "row", text |-> row_str])
            /\ row' = row + 1
            /\ pc' = "ptr_row"
            /\ UNCHANGED <<row_str, tile_number, col>>
    /\ UNCHANGED <<entry, fs, dirs, tileset_path, out_arg, output_path, width,
                   height, tile_size, img, numbered_img, ret, exc, excAt,
                   handle_open, writes, calls, fs0>>

\* the total line printing the counter itself, not the counter minus one
PTR_TotalOffByOne ==
    /\ pc = "ptr_total"
    /\ out' = Append(out, [k |-> "total", n |-> tile_number])
    /\ pc' = Return(entry)
    /\ UNCHANGED <<entry, fs, dirs, tileset_path, out_arg, output_path, width,
                   height, tile_size, img, numbered_img, row, col, tile_number,
                   row_str, ret, exc, excAt, handle_open, writes, calls, fs0>>

PTR_Total ==
    /\ pc = "ptr_total"
    /\ out' = Append(out, [k |-> "total", n |-> tile_number - 1])
    /\ pc' = Return(entry)
    /\ UNCHANGED <<entry, fs, dirs, tileset_path, out_arg, output_path, width,
                   height, tile_size, img, numbered_img, row, col, tile_number,
                   row_str, ret, exc, excAt, handle_open, writes, calls, fs0>>

----------------------------------------------------------------------------
(* Paths and files *)

Suffix == <<"-", "n", "u", "m", "b", "e", "r", "e", "d", ".", "p", "n", "g">>

\* str.rfind, 1-based: the last position of c in p, 0 when there is none
RFind(p, c) ==
    IF \E i \in 1..Len(p) : p[i] = c
    THEN CHOOSE i \in 1..Len(p) : p[i] = c /\ \A j \in (i + 1)..Len(p) : p[j] # c
    ELSE 0

\* where os.path.splitext cuts p: the last dot, if it comes after the last
\* separator and some character of the file name before it is not a dot;
\* Len(p) + 1 (nothing cut) otherwise
ExtStart(p) ==
    LET sepIndex == RFind(p, "/")
        dotIndex == RFind(p, ".")
    IN  IF /\ dotIndex > sepIndex
           /\ \E k \in (sepIndex + 1)..(dotIndex - 1) : p[k] # "."
        THEN dotIndex
        ELSE Len(p) + 1

\* os.path.splitext(p)[0] and [1]
SplitExtRoot(p) == SubSeq(p, 1, ExtStart(p) - 1)
SplitExtExt(p) == SubSeq(p, ExtStart(p), Len(p))

\* the output path with the extension replaced by ".png" and no "-numbered"
DefaultOutputPathPngOnly(p) == SplitExtRoot(p) \o <<".", "p", "n", "g">>

\* lines 61-62: f"{base_name}-numbered.png"
DefaultOutputPath(p) == SplitExtRoot(p) \o Suffix

RECURSIVE RStripSep(_)
RStripSep(p) == IF p # <<>> /\ p[Len(p)] = "/" THEN RStripSep(SubSeq(p, 1, Len(p) - 1)) ELSE p

\* os.path.dirname(p)
Dirname(p) ==
    LET head == SubSeq(p, 1, RFind(p, "/"))
    IN  IF RStripSep(head) = <<>> THEN head ELSE RStripSep(head)

Basename(p) == SubSeq(p, RFind(p, "/") + 1, Len(p))

\* the current directory and the root always exist
DirExists(d) == RStripSep(d) = <<>> \/ d \in dirs

\* p can name a regular file
IsFileName(p) == Basename(p) \notin {<<>>, <<".">>, <<".", ".">>}

\* os.path.exists for the files of the model
Exists(p) == p \in DOMAIN fs

\* Image.open / load succeeds on the content
Decodable(c) == c.width > 0 /\ c.height > 0

\* Image.save picks the encoder from the extension of the path
KnownExtension(p) == SplitExtExt(p) = <<".", "p", "n", "g">>

EmptyFS == [p \in {} |-> NoImage]
WriteFile(f, p, c) == [q \in DOMAIN f \cup {p} |-> IF q = p THEN c ELSE f[q]]
RemoveFile(f, p) == [q \in DOMAIN f \ {p} |-> f[q]]

----------------------------------------------------------------------------
(* number_tileset(tileset_path, output_path=None) *)

\* where control goes when number_tileset returns or raises
ReturnNT(e) == IF e = "main" THEN "m_after_nt" ELSE "done"
RaiseNT(e) == IF e = "main" THEN "m_with_exit" ELSE "done"

\* the anchor with row and column swapped
MarkTransposed(r, c, n) == <<r * TileSize + 2, c * TileSize + 2, n>>

\* lines 46-55: the anchor of cell (r, c) and the number drawn there
Mark(r, c, n) == <<c * TileSize + 2, r * TileSize + 2, n>>

Draw(image, r, c, n) == [image EXCEPT !.marks = Append(@, Mark(r, c, n))]

\* the guard printing its message and then going on, the `return` forgotten
NT_ExistsFallsThrough ==
    /\ pc = "nt_exists"
    /\ IF ~Exists(tileset_path)
       THEN /\ out' = Append(out, [k |-> "nt_not_found", path |-> tileset_path])
            /\ pc' = "nt_open"
            /\ UNCHANGED ret
       ELSE /\ pc' = "nt_open"
            /\ UNCHANGED <<out, ret>>
    /\ UNCHANGED <<entry, fs, dirs, tileset_path, out_arg, output_path, width,
                   height, tile_size, img, numbered_img, row, col, tile_number,
                   row_str, exc, excAt, handle_open, writes, calls, fs0>>

\* lines 13-15
NT_Exists ==
    /\ pc = "nt_exists"
    /\ IF ~Exists(tileset_path)
       THEN /\ out' = Append(out, [k |-> "nt_not_found", path |-> tileset_path])
            /\ ret' = "False"
            /\ pc' = ReturnNT(entry)
       ELSE /\ pc' = "nt_open"
            /\ UNCHANGED <<out, ret>>
    /\ UNCHANGED <<entry, fs, dirs, tileset_path, out_arg, output_path, width,
                   height, tile_size, img, numbered_img, row, col, tile_number,
                   row_str, exc, excAt, handle_open, writes, calls, fs0>>

\* lines 18-22
NT_Open ==
    /\ pc = "nt_open"
    /\ IF ~Exists(tileset_path)
       THEN /\ exc' = "FileNotFoundError"
            /\ excAt' = "nt_open"
            /\ pc' = RaiseNT(entry)
            /\ UNCHANGED <<img, numbered_img>>
       ELSE IF ~Decodable(fs[tileset_path])
       THEN /\ exc' = "Exception"
            /\ excAt' = "nt_open"
            /\ pc' = RaiseNT(entry)
            /\ UNCHANGED <<img, numbered_img>>
       ELSE /\ img' = fs[tileset_path]
            /\ numbered_img' = fs[tileset_path]
            /\ pc' = "nt_info"
            /\ UNCHANGED <<exc, excAt>>
    /\ UNCHANGED <<entry, fs, dirs, tileset_path, out_arg, output_path, width,
                   height, tile_size, row, col, tile_number, row_str, out, ret,
                   handle_open, writes, calls, fs0>>

NT_Info ==
    /\ pc = "nt_info"
    /\ tile_number' = 1
    /\ row' = 0
    /\ out' = Append(out, [k |-> "nt_info", width |-> img.width, height |-> img.height,
                           total |-> TilesPerRow(img.width, TileSize)
                                       * TilesPerCol(img.height, TileSize)])
    /\ pc' = "nt_row"
    /\ UNCHANGED <<entry, fs, dirs, tileset_path, out_arg, output_path, width,
                   height, tile_size, img, numbered_img, col, row_str, ret,
                   exc, excAt, handle_open, writes, calls, fs0>>

NT_Row ==
    /\ pc = "nt_row"
    /\ IF row < TilesPerCol(img.height, TileSize)
       THEN /\ col' = 0
            /\ pc' = "nt_col"
       ELSE /\ pc' = "nt_path"
            /\ UNCHANGED col
    /\ UNCHANGED <<entry, fs, dirs, tileset_path, out_arg, output_path, width,
                   height, tile_size, img, numbered_img, row, tile_number,
                   row_str, out, ret, exc, excAt, handle_open, writes, calls, fs0>>

NT_Col ==
    /\ pc = "nt_col"
    /\ IF col < TilesPerRow(img.width, TileSize)
       THEN /\ numbered_img' = Draw(numbered_img, row, col, tile_number)
            /\ tile_number' = tile_number + 1
            /\ col' = col + 1
            /\ UNCHANGED <<pc, row>>
       ELSE /\ row' = row + 1
            /\ pc' = "nt_row"
            /\ UNCHANGED <<numbered_img, tile_number, col>>
    /\ UNCHANGED <<entry, fs, dirs, tileset_path, out_arg, output_path, width,
                   height, tile_size, img, row_str, out, ret, exc, excAt,
                   handle_open, writes, calls, fs0>>

NT_Path ==
    /\ pc = "nt_path"
    /\ output_path' = IF output_path = None THEN DefaultOutputPath(tileset_path)
                      ELSE output_path
    /\ pc' = "nt_save"
    /\ UNCHANGED <<entry, fs, dirs, tileset_path, out_arg, width, height,
                   tile_size, img, numbered_img, row, col, tile_number,
                   row_str, out, ret, exc, excAt, handle_open, writes, calls, fs0>>

\* line 64 raising before or while creating the file
NT_SaveFails ==
    /\ pc = "nt_save"
    /\ \/ ~KnownExtension(output_path)
       \/ ~DirExists(Dirname(output_path))
       \/ ~IsFileName(output_path)
    /\ exc' = IF KnownExtension(output_path) /\ ~DirExists(Dirname(output_path))
              THEN "FileNotFoundError" ELSE "Exception"
    /\ excAt' = "nt_save"
    /\ pc' = RaiseNT(entry)
    /\ UNCHANGED <<entry, fs, dirs, tileset_path, out_arg, output_path, width,
                   height, tile_size, img, numbered_img, row, col, tile_number,
                   row_str, out, ret, handle_open, writes, calls, fs0>>

\* a save that writes next to the requested path and leaves the path itself alone
NT_SaveOkElsewhere ==
    /\ pc = "nt_save"
    /\ KnownExtension(output_path)
    /\ DirExists(Dirname(output_path))
    /\ IsFileName(output_path)
    /\ fs' = WriteFile(fs, output_path \o <<".", "p", "n", "g">>, numbered_img)
    /\ writes' = Append(writes, output_path \o <<".", "p", "n", "g">>)
    /\ out' = Append(out, [k |-> "nt_success", path |-> output_path])
    /\ ret' = "True"
    /\ pc' = ReturnNT(entry)
    /\ UNCHANGED <<entry, dirs, tileset_path, out_arg, output_path, width,
                   height, tile_size, img, numbered_img, row, col, tile_number,
                   row_str, exc, excAt, handle_open, calls, fs0>>

\* lines 64-67
NT_SaveOk ==
    /\ pc = "nt_save"
    /\ KnownExtension(output_path)
    /\ DirExists(Dirname(output_path))
    /\ IsFileName(output_path)
    /\ fs' = WriteFile(fs, output_path, numbered_img)
    /\ writes' = Append(writes, output_path)
    /\ out' = Append(out, [k |-> "nt_success", path |-> output_path])
    /\ ret' = "True"
    /\ pc' = ReturnNT(entry)
    /\ UNCHANGED <<entry, dirs, tileset_path, out_arg, output_path, width,
                   height, tile_size, img, numbered_img, row, col, tile_number,
                   row_str, exc, excAt, handle_open, calls, fs0>>

----------------------------------------------------------------------------
(* The entry point, lines 88-119 *)

\* line 89
MainPath == <<"a", "s", "s", "e", "t", "s", "/", "i", "m", "g", "/", "t", "i", "l", "e", "s", "e", "t", "/", "t", "i", "l", "e", "s", "e", "t", "-", "v", "1", ".", "p", "n", "g">>

\* the handle released as soon as the dimensions are read
M_OpenReleasing ==
    /\ pc = "m_open"
    /\ IF ~Exists(tileset_path)
       THEN /\ exc' = "FileNotFoundError"
            /\ excAt' = "m_open"
            /\ pc' = "m_except"
            /\ UNCHANGED <<handle_open, width, height>>
       ELSE IF ~Decodable(fs[tileset_path])
       THEN /\ exc' = "Exception"
            /\ excAt' = "m_open"
            /\ pc' = "m_except"
            /\ UNCHANGED <<handle_open, width, height>>
       ELSE /\ handle_open' = FALSE
            /\ width' = fs[tileset_path].width
            /\ height' = fs[tileset_path].height
            /\ pc' = "m_found"
            /\ UNCHANGED <<exc, excAt>>
    /\ UNCHANGED <<entry, fs, dirs, tileset_path, out_arg, output_path,
                   tile_size, img, numbered_img, row, col, tile_number,
                   row_str, out, ret, writes, calls, fs0>>

\* lines 92-94: Image.open and img.size inside `with`
M_Open ==
    /\ pc = "m_open"
    /\ IF ~Exists(tileset_path)
       THEN /\ exc' = "FileNotFoundError"
            /\ excAt' = "m_open"
            /\ pc' = "m_except"
            /\ UNCHANGED <<handle_open, width, height>>
       ELSE IF ~Decodable(fs[tileset_path])
       THEN /\ exc' = "Exception"
            /\ excAt' = "m_open"
            /\ pc' = "m_except"
            /\ UNCHANGED <<handle_open, width, height>>
       ELSE /\ handle_open' = TRUE
            /\ width' = fs[tileset_path].width
            /\ height' = fs[tileset_path].height
            /\ pc' = "m_found"
            /\ UNCHANGED <<exc, excAt>>
    /\ UNCHANGED <<entry, fs, dirs, tileset_path, out_arg, output_path,
                   tile_size, img, numbered_img, row, col, tile_number,
                   row_str, out, ret, writes, calls, fs0>>

\* lines 95-98: the found-message, then the call of print_tile_reference
M_Found ==
    /\ pc = "m_found"
    /\ out' = Append(out, [k |-> "found", width |-> width, height |-> height])
    /\ tile_size' = TileSize
    /\ pc' = "ptr_header"
    /\ UNCHANGED <<entry, fs, dirs, tileset_path, out_arg, output_path, width,
                   height, img, numbered_img, row, col, tile_number, row_str,
                   ret, exc, excAt, handle_open, writes, calls, fs0>>

\* line 101: the call of number_tileset(tileset_path)
M_CallNT ==
    /\ pc = "m_call_nt"
    /\ output_path' = None
    /\ calls' = calls + 1
    /\ pc' = "nt_exists"
    /\ UNCHANGED <<entry, fs, dirs, tileset_path, out_arg, width, height,
                   tile_size, img, numbered_img, row, col, tile_number,
                   row_str, out, ret, exc, excAt, handle_open, writes, fs0>>

\* the legend printed whatever number_tileset returned
M_AfterNTAlways ==
    /\ pc = "m_after_nt"
    /\ out' = Append(out, [k |-> "legend"])
    /\ pc' = "m_with_exit"
    /\ UNCHANGED <<entry, fs, dirs, tileset_path, out_arg, output_path, width,
                   height, tile_size, img, numbered_img, row, col, tile_number,
                   row_str, ret, exc, excAt, handle_open, writes, calls, fs0>>

\* lines 103-113: the legend, when number_tileset returned True
M_AfterNT ==
    /\ pc = "m_after_nt"
    /\ out' = IF ret = "True" THEN Append(out, [k |-> "legend"]) ELSE out
    /\ pc' = "m_with_exit"
    /\ UNCHANGED <<entry, fs, dirs, tileset_path, out_arg, output_path, width,
                   height, tile_size, img, numbered_img, row, col, tile_number,
                   row_str, ret, exc, excAt, handle_open, writes, calls, fs0>>

\* the end of the `with` block, reached normally or by an exception
M_WithExit ==
    /\ pc = "m_with_exit"
    /\ handle_open' = FALSE
    /\ pc' = IF exc = "none" THEN "done" ELSE "m_except"
    /\ UNCHANGED <<entry, fs, dirs, tileset_path, out_arg, output_path, width,
                   height, tile_size, img, numbered_img, row, col, tile_number,
                   row_str, out, ret, exc, excAt, writes, calls, fs0>>

\* one handler for every exception, as if `except Exception` came first
M_ExceptGeneric ==
    /\ pc = "m_except"
    /\ out' = Append(out, [k |-> "err_generic"])
    /\ pc' = "done"
    /\ UNCHANGED <<entry, fs, dirs, tileset_path, out_arg, output_path, width,
                   height, tile_size, img, numbered_img, row, col, tile_number,
                   row_str, ret, exc, excAt, handle_open, writes, calls, fs0>>

\* lines 115-119
M_Except ==
    /\ pc = "m_except"
    /\ out' = Append(out, [k |-> IF exc = "FileNotFoundError"
                                 THEN "err_not_found" ELSE "err_generic"])
    /\ pc' = "done"
    /\ UNCHANGED <<entry, fs, dirs, tileset_path, out_arg, output_path, width,
                   height, tile_size, img, numbered_img, row, col, tile_number,
                   row_str, ret, exc, excAt, handle_open, writes, calls, fs0>>

----------------------------------------------------------------------------
(* Other programs acting on the files while the entry point runs *)

EnvRemoveFile ==
    /\ entry = "main"
    /\ pc # "done"
    /\ Exists(tileset_path)
    /\ fs' = RemoveFile(fs, tileset_path)
    /\ UNCHANGED <<entry, pc, dirs, tileset_path, out_arg, output_path, width,
                   height, tile_size, img, numbered_img, row, col, tile_number,
                   row_str, out, ret, exc, excAt, handle_open, writes, calls,
                   fs0>>

EnvRemoveDir ==
    /\ entry = "main"
    /\ pc # "done"
    /\ Dirname(tileset_path) \in dirs
    /\ \A q \in DOMAIN fs : Dirname(q) # Dirname(tileset_path)
    /\ dirs' = dirs \ {Dirname(tileset_path)}
    /\ UNCHANGED <<entry, pc, fs, tileset_path, out_arg, output_path, width,
                   height, tile_size, img, numbered_img, row, col, tile_number,
                   row_str, out, ret, exc, excAt, handle_open, writes, calls,
                   fs0>>

----------------------------------------------------------------------------
(* A caller calling number_tileset again with the same arguments *)

CallAgain ==
    /\ entry = "number_tileset"
    /\ pc = "done"
    /\ calls < MaxCalls
    /\ calls' = calls + 1
    /\ output_path' = out_arg
    /\ img' = NoImage
    /\ numbered_img' = NoImage
    /\ row' = 0
    /\ col' = 0
    /\ tile_number' = 0
    /\ ret' = "unset"
    /\ exc' = "none"
    /\ excAt' = "none"
    /\ pc' = "nt_exists"
    /\ UNCHANGED <<entry, fs, dirs, tileset_path, out_arg, width, height,
                   tile_size, row_str, out, handle_open, writes, fs0>>

----------------------------------------------------------------------------
(* Specifications *)

Garbage == [width |-> 0, height |-> 0, marks |-> <<>>]
Picture(w, h) == [width |-> w, height |-> h, marks |-> <<>>]
OldOutput == Picture(1, 1)

\* tile sizes print_tile_reference is called with: the default and two small ones
GridTileSizes == {1, 3, TileSize}

\* image sizes: whole cells, and whole cells plus one pixel
ImageDims == {c * TileSize + r : c \in 0..MaxImgCols, r \in {0, 1}} \ {0}

Locals ==
    /\ img = NoImage
    /\ numbered_img = NoImage
    /\ row = 0
    /\ col = 0
    /\ tile_number = 0
    /\ row_str = <<>>
    /\ out = <<>>
    /\ ret = "unset"
    /\ exc = "none"
    /\ excAt = "none"
    /\ handle_open = FALSE
    /\ writes = <<>>

\* print_tile_reference called on its own
InitGrid ==
    /\ entry = "print_tile_reference"
    /\ pc = "ptr_header"
    /\ fs = EmptyFS
    /\ fs0 = EmptyFS
    /\ dirs = {}
    /\ tileset_path = None
    /\ out_arg = None
    /\ output_path = None
    /\ tile_size \in GridTileSizes
    /\ \E c \in 0..MaxCols, r \in {0, 1, tile_size - 1} :
          r < tile_size /\ width = c * tile_size + r
    /\ \E c \in 0..MaxRows, r \in {0, 1, tile_size - 1} :
          r < tile_size /\ height = c * tile_size + r
    /\ calls = 0
    /\ Locals

NextGrid == PTR_Header \/ PTR_Row \/ PTR_Col \/ PTR_Total

SpecGrid == InitGrid /\ [][NextGrid]_vars

PathPieces == {<<"a">>, <<".">>, <<"/">>, Suffix}

RECURSIVE PathsOf(_)
PathsOf(n) == IF n = 0 THEN {<<>>}
              ELSE PathsOf(n - 1) \cup {p \o q : p \in PathsOf(n - 1), q \in PathPieces}

Paths == PathsOf(MaxPieces)

\* explicit output paths: a plain one, one in a directory, one with no extension
OutPlain == <<"o", ".", "p", "n", "g">>
OutInDir == <<"d", "/", "o", ".", "p", "n", "g">>
OutNoExt == <<"o">>

LabelImages == {Picture(TileSize + 1, TileSize), Picture(2 * TileSize, 2 * TileSize + 1),
                Picture(TileSize - 1, TileSize), Garbage}

\* number_tileset called on its own, on any path, with or without an output path
InitLabel ==
    /\ entry = "number_tileset"
    /\ pc = "nt_exists"
    /\ tileset_path \in Paths
    /\ out_arg \in {None, tileset_path, OutPlain, OutInDir, OutNoExt}
    /\ output_path = out_arg
    /\ \E srcFiles \in {EmptyFS} \cup
                       {[p \in {tileset_path} |-> c] : c \in LabelImages},
          oldOut \in BOOLEAN, outDir \in BOOLEAN :
          LET target == IF out_arg = None THEN DefaultOutputPath(tileset_path)
                        ELSE out_arg
          IN  /\ srcFiles # EmptyFS => IsFileName(tileset_path)
              /\ oldOut => /\ target # tileset_path
                           /\ IsFileName(target)
                           /\ out_arg \in {None, OutPlain}
              /\ outDir => out_arg = OutInDir
              /\ fs = IF oldOut THEN WriteFile(srcFiles, target, OldOutput) ELSE srcFiles
              /\ dirs = {Dirname(q) : q \in DOMAIN fs}
                           \cup (IF outDir THEN {Dirname(OutInDir)} ELSE {})
    /\ fs0 = fs
    /\ width = 0
    /\ height = 0
    /\ tile_size = TileSize
    /\ calls = 1
    /\ Locals

NextLabel ==
    \/ NT_Exists \/ NT_Open \/ NT_Info \/ NT_Row \/ NT_Col \/ NT_Path
    \/ NT_SaveFails \/ NT_SaveOk
    \/ CallAgain

SpecLabel == InitLabel /\ [][NextLabel]_vars

MainOutput == DefaultOutputPath(MainPath)

\* the script run from some directory: the tileset is there or not
InitMain ==
    /\ entry = "main"
    /\ pc = "m_open"
    /\ tileset_path = MainPath
    /\ out_arg = None
    /\ output_path = None
    /\ \E srcFiles \in {EmptyFS} \cup {[p \in {MainPath} |-> Garbage]} \cup
                       {[p \in {MainPath} |-> Picture(w, h)] : w \in ImageDims, h \in ImageDims},
          oldOut \in BOOLEAN, dir \in BOOLEAN :
          /\ fs = IF oldOut THEN WriteFile(srcFiles, MainOutput, OldOutput) ELSE srcFiles
          /\ DOMAIN fs # {} => dir
          /\ dirs = IF dir THEN {Dirname(MainPath)} ELSE {}
    /\ fs0 = fs
    /\ width = 0
    /\ height = 0
    /\ tile_size = TileSize
    /\ calls = 0
    /\ Locals

NextMain ==
    \/ M_Open \/ M_Found \/ M_CallNT \/ M_AfterNT \/ M_WithExit \/ M_Except
    \/ PTR_Header \/ PTR_Row \/ PTR_Col \/ PTR_Total
    \/ NT_Exists \/ NT_Open \/ NT_Info \/ NT_Row \/ NT_Col \/ NT_Path
    \/ NT_SaveFails \/ NT_SaveOk
    \/ EnvRemoveFile \/ EnvRemoveDir

SpecMain == InitMain /\ [][NextMain]_vars

----------------------------------------------------------------------------
(* Reading printed text back *)

IsDigit(c) == \E i \in 1..10 : DigitChars[i] = c
DigitVal(c) == (CHOOSE i \in 1..10 : DigitChars[i] = c) - 1

RECURSIVE LStrip(_)
LStrip(s) == IF s # <<>> /\ Head(s) = " " THEN LStrip(Tail(s)) ELSE s

RECURSIVE ParseDigits(_, _)
ParseDigits(s, acc) ==
    IF s = <<>> THEN acc
    ELSE IF IsDigit(Head(s)) THEN ParseDigits(Tail(s), acc * 10 + DigitVal(Head(s)))
    ELSE -1

\* the number a right-justified field shows: spaces, then digits; -1 otherwise
ParseRight(s) == LET t == LStrip(s) IN IF t = <<>> THEN -1 ELSE ParseDigits(t, 0)

RECURSIVE NDigits(_)
NDigits(n) == IF n < 10 THEN 1 ELSE 1 + NDigits(n \div 10)

Max(a, b) == IF a >= b THEN a ELSE b

RECURSIVE FieldsOK(_, _, _)
\* s is exactly `count` fields showing first, first+1, ..., each right-justified
\* in 3 columns (wider only when the number has more digits) and followed by " "
FieldsOK(s, first, count) ==
    IF count <= 0 THEN s = <<>>
    ELSE LET w == Max(3, NDigits(first)) IN
         /\ Len(s) >= w + 1
         /\ ParseRight(SubSeq(s, 1, w)) = first
         /\ s[w + 1] = " "
         /\ FieldsOK(SubSeq(s, w + 2, Len(s)), first + 1, count - 1)

\* text is the line of 0-based row r of a grid of `cols` columns
RowLineOK(text, r, cols) ==
    LET w == Max(2, NDigits(r + 1)) IN
    /\ Len(text) >= 4 + w + 2
    /\ SubSeq(text, 1, 4) = <<"R", "o", "w", " ">>
    /\ ParseRight(SubSeq(text, 5, 4 + w)) = r + 1
    /\ SubSeq(text, 5 + w, 6 + w) = <<":", " ">>
    /\ FieldsOK(SubSeq(text, 7 + w, Len(text)), r * cols + 1, cols)

IsRow(e) == e.k = "row"
IsTotal(e) == e.k = "total"
RowLines(o) == SelectSeq(o, IsRow)
TotalLines(o) == SelectSeq(o, IsTotal)

----------------------------------------------------------------------------
(* Claims about print_tile_reference, checked under SpecGrid *)

\* C2: print_tile_reference emits exactly height div tile_size row lines and
\* then one total line; row line i carries the label i and exactly
\* width div tile_size number tokens, each right-justified to width 3.
C2_RowLines ==
    LET cols == width \div tile_size
        rows == height \div tile_size
        lines == RowLines(out)
    IN  /\ \A i \in 1..Len(lines) : RowLineOK(lines[i].text, i - 1, cols)
        /\ Len(lines) <= rows
        /\ pc = "done" =>
              /\ Len(out) = rows + 2
              /\ out[1].k = "grid_header"
              /\ \A i \in 2..(rows + 1) : out[i].k = "row"
              /\ out[rows + 2].k = "total"

\* the finished grid of a 17 x 16 image: one row line, "Row  1:   1 "
C2_Witness ==
    /\ pc = "done"
    /\ tile_size = 16 /\ width = 17 /\ height = 16
    /\ Len(RowLines(out)) = 1
    /\ RowLines(out)[1].text = <<"R", "o", "w", " ", " ", "1", ":", " ", " ", " ", "1", " ">>

\* C3: the total printed in the trailing line equals
\* (width div tile_size) * (height div tile_size), also when a factor is 0.
C3_Total ==
    /\ \A i \in 1..Len(out) :
          out[i].k = "total" => out[i].n = (width \div tile_size) * (height \div tile_size)
    /\ pc = "done" => Len(TotalLines(out)) = 1

\* a finished run over a grid with several rows and columns and leftover pixels
C3_Witness ==
    /\ pc = "done"
    /\ width \div tile_size = 3 /\ height \div tile_size = 2
    /\ width % tile_size # 0
    /\ Len(TotalLines(out)) = 1
    /\ TotalLines(out)[1].n = 6

\* a finished run over a grid with no columns
C3_WitnessZero ==
    /\ pc = "done"
    /\ width \div tile_size = 0 /\ height \div tile_size > 0
    /\ TotalLines(out)[1].n = 0

\* a finished grid whose last token has three digits and so no padding
C2_WitnessWide ==
    /\ pc = "done"
    /\ tile_size = 3
    /\ (width \div tile_size) * (height \div tile_size) = 100
    /\ Len(RowLines(out)) = height \div tile_size

----------------------------------------------------------------------------
(* Claims about number_tileset called on its own, checked under SpecLabel *)

\* C4: number_tileset on a path that does not exist returns False and writes
\* no file: the files after the call are the files before it, with or
\* without an output path.
C4_MissingPath ==
    (entry = "number_tileset" /\ tileset_path \notin DOMAIN fs0) =>
        /\ fs = fs0
        /\ writes = <<>>
        /\ exc = "none"
        /\ pc = "done" => ret = "False"

\* a finished call on a missing path, with an output path given and another
\* file present
C4_Witness ==
    /\ entry = "number_tileset"
    /\ pc = "done"
    /\ tileset_path \notin DOMAIN fs0
    /\ out_arg = OutPlain
    /\ OutPlain \in DOMAIN fs0
    /\ ret = "False"

\* the same with no output path given
C4_WitnessDefault ==
    /\ entry = "number_tileset"
    /\ pc = "done"
    /\ tileset_path = <<"a", ".", "a">>
    /\ tileset_path \notin DOMAIN fs0
    /\ out_arg = None
    /\ DOMAIN fs0 # {}
    /\ ret = "False"

\* p has an extension: a dot in its last component with a character that is
\* not a dot somewhere before it in that component
HasExtension(p) ==
    \E i, k \in 1..Len(p) :
        /\ i < k
        /\ p[k] = "." /\ p[i] # "."
        /\ \A j \in i..Len(p) : p[j] # "/"

\* p with the extension (the last dot of the last component and what follows) removed
WithoutExtension(p) ==
    IF HasExtension(p)
    THEN SubSeq(p, 1, (CHOOSE k \in 1..Len(p) :
                          p[k] = "." /\ \A j \in (k + 1)..Len(p) : p[j] # ".") - 1)
    ELSE p

ExpectedTarget ==
    IF out_arg = None
    THEN WithoutExtension(tileset_path)
            \o <<"-", "n", "u", "m", "b", "e", "r", "e", "d", ".", "p", "n", "g">>
    ELSE out_arg

\* C5: a successful call writes exactly one file and returns True; the file
\* is the source path with its extension removed and "-numbered.png"
\* appended when no output path is given, and the given path otherwise; a
\* file already there is overwritten.
C5_OneFileWritten ==
    (entry = "number_tileset" /\ pc = "done") =>
        /\ ret = "True" <=> writes # <<>>
        /\ ret = "True" =>
              /\ Len(writes) = calls
              /\ \A i \in 1..Len(writes) : writes[i] = ExpectedTarget
              /\ DOMAIN fs = DOMAIN fs0 \cup {ExpectedTarget}
              /\ \A q \in DOMAIN fs0 : q # ExpectedTarget => fs[q] = fs0[q]
              /\ fs[ExpectedTarget] = numbered_img
              /\ numbered_img.width = img.width /\ numbered_img.height = img.height
        /\ ret # "True" => fs = fs0

\* a first successful call with no output path that replaced an older output
C5_Witness ==
    /\ entry = "number_tileset"
    /\ pc = "done"
    /\ calls = 1
    /\ ret = "True"
    /\ out_arg = None
    /\ tileset_path = <<"a", ".", "a">>
    /\ <<"a">> \o Suffix \in DOMAIN fs0
    /\ fs[<<"a">> \o Suffix] # fs0[<<"a">> \o Suffix]
    /\ writes = << <<"a">> \o Suffix >>

\* a successful call with an output path in a directory
C5_WitnessExplicit ==
    /\ entry = "number_tileset"
    /\ pc = "done"
    /\ ret = "True"
    /\ out_arg = OutInDir
    /\ OutInDir \in DOMAIN fs
    /\ OutInDir \notin DOMAIN fs0

\* C10: with no output path number_tileset never overwrites its source: the
\* derived output path differs from the source path, and after any number of
\* such calls the source file is as it was; the source changes only when
\* the caller passes it as the output path.
C10_SourceKept ==
    (entry = "number_tileset") =>
        /\ (out_arg = None /\ pc \in {"nt_save", "done"} /\ output_path # None)
              => output_path # tileset_path
        /\ \A i \in 1..Len(writes) : out_arg = None => writes[i] # tileset_path
        /\ tileset_path \in DOMAIN fs0 =>
              /\ tileset_path \in DOMAIN fs
              /\ fs[tileset_path] # fs0[tileset_path] => out_arg = tileset_path

\* the last of several default-path calls on a source that is itself named
\* like an output
C10_Witness ==
    /\ entry = "number_tileset"
    /\ pc = "done"
    /\ calls = MaxCalls
    /\ out_arg = None
    /\ ret = "True"
    /\ tileset_path = <<"a">> \o Suffix
    /\ Len(writes) = MaxCalls
    /\ fs[tileset_path] = fs0[tileset_path]
    /\ fs[tileset_path].marks = <<>>
    /\ fs[writes[1]].marks # <<>>

\* the source overwritten through an explicit output path
C10_WitnessExplicit ==
    /\ entry = "number_tileset"
    /\ pc = "done"
    /\ out_arg = tileset_path
    /\ tileset_path \in DOMAIN fs0
    /\ fs[tileset_path] # fs0[tileset_path]

----------------------------------------------------------------------------
(* Claims about the entry point, checked under SpecMain *)

RECURSIVE SplitSpaces(_, _)
\* the words of s, cur being the word read so far
SplitSpaces(s, cur) ==
    IF s = <<>> THEN (IF cur = <<>> THEN <<>> ELSE <<cur>>)
    ELSE IF Head(s) = " "
         THEN (IF cur = <<>> THEN <<>> ELSE <<cur>>) \o SplitSpaces(Tail(s), <<>>)
         ELSE SplitSpaces(Tail(s), Append(cur, Head(s)))

\* the numbers a row line lists after its "Row nn: " label
RowNumbers(text) ==
    LET words == SplitSpaces(SubSeq(text, RFind(text, ":") + 1, Len(text)), <<>>)
    IN  [i \in 1..Len(words) |-> ParseDigits(words[i], 0)]

InLabelLoop == pc \in {"nt_row", "nt_col"}
\* number_tileset has loaded the image and left its drawing loop
LabelDone == img # NoImage /\ pc \notin {"nt_info", "nt_row", "nt_col"}

\* C1: numbering is row-major, 1-based and contiguous in both operations:
\* with cols = width div 16 and rows = height div 16 the cell (row, col)
\* gets index row*cols + col + 1 in the printed grid and in the labelled
\* image, every index of 1..rows*cols goes to exactly one cell, and the last
\* index is rows*cols.
C1_RowMajor ==
    (entry = "main") =>
        LET cols == width \div 16
            rows == height \div 16
            lines == RowLines(out)
            marks == numbered_img.marks
        IN  \* the printed grid
            /\ \A i \in 1..Len(lines) :
                  RowNumbers(lines[i].text) = [j \in 1..cols |-> (i - 1) * cols + (j - 1) + 1]
            /\ (pc = "ptr_col" /\ col < cols) => tile_number = row * cols + col + 1
            /\ \A i \in 1..Len(out) :
                  out[i].k = "total" => (Len(lines) = rows /\ out[i].n = rows * cols)
            /\ pc = "ptr_total" => tile_number - 1 = rows * cols
            \* the labelled image
            /\ (InLabelLoop \/ LabelDone) =>
                  /\ img.width = width /\ img.height = height
                  /\ \A n \in 1..Len(marks) :
                        marks[n] = <<((n - 1) % cols) * 16 + 2, ((n - 1) \div cols) * 16 + 2, n>>
                  /\ \A r \in 0..(rows - 1), c \in 0..(cols - 1) :
                        (r < row \/ (r = row /\ c < col /\ pc = "nt_col") \/ LabelDone) =>
                            /\ r * cols + c + 1 \in 1..Len(marks)
                            /\ marks[r * cols + c + 1] = <<c * 16 + 2, r * 16 + 2, r * cols + c + 1>>
            /\ (pc = "nt_col" /\ col < cols) => tile_number = row * cols + col + 1
            /\ LabelDone => Len(marks) = rows * cols
            /\ \A i \in 1..Len(writes) : Len(fs[writes[i]].marks) = rows * cols

\* a run that printed and labelled a 2 x 2 grid cut from a 33 x 32 image
C1_Witness ==
    /\ entry = "main"
    /\ pc = "done"
    /\ width = 33 /\ height = 32
    /\ Len(RowLines(out)) = 2
    /\ RowNumbers(RowLines(out)[2].text) = <<3, 4>>
    /\ writes = <<MainOutput>>
    /\ fs[MainOutput].marks = <<<<2, 2, 1>>, <<18, 2, 2>>, <<2, 18, 3>>, <<18, 18, 4>>>>

Kinds(o) == [i \in 1..Len(o) |-> o[i].k]
Has(o, kind) == \E i \in 1..Len(o) : o[i].k = kind
Count(o, kind) == Cardinality({i \in 1..Len(o) : o[i].k = kind})

\* C6: if the source file is missing the entry point prints the "file not
\* found" message and not the generic one, and stops: no found-message, no
\* grid, no call of number_tileset, no legend, no file written.
C6_MissingSource ==
    (entry = "main") =>
        /\ (exc = "FileNotFoundError" /\ excAt = "m_open") =>
              /\ MainPath \notin DOMAIN fs
              /\ pc \in {"m_except", "done"}
              /\ calls = 0
              /\ writes = <<>>
              /\ ~handle_open
              /\ \A q \in DOMAIN fs : fs[q] = fs0[q]
              /\ out = IF pc = "done" THEN <<[k |-> "err_not_found"]>> ELSE <<>>
        /\ (MainPath \notin DOMAIN fs0 /\ pc \notin {"m_open"}) =>
              (exc = "FileNotFoundError" /\ excAt = "m_open")

\* a finished run started where the tileset is missing but an older output
\* file is there
C6_Witness ==
    /\ entry = "main"
    /\ pc = "done"
    /\ MainPath \notin DOMAIN fs0
    /\ MainOutput \in DOMAIN fs0
    /\ out = <<[k |-> "err_not_found"]>>
    /\ fs = fs0

Rank(kind) ==
    CASE kind = "found" -> 1
      [] kind = "grid_header" -> 2
      [] kind = "row" -> 3
      [] kind = "total" -> 4
      [] kind = "nt_not_found" -> 5
      [] kind = "nt_info" -> 5
      [] kind = "nt_success" -> 6
      [] kind = "legend" -> 7
      [] OTHER -> 8

\* C7: the entry point reads the dimensions, prints the found-message, calls
\* print_tile_reference, then calls number_tileset on the same path; the
\* legend is printed only after number_tileset has returned, and exactly
\* when it returned True.
C7_Order ==
    (entry = "main") =>
        /\ \A i, j \in 1..Len(out) : i < j => Rank(out[i].k) <= Rank(out[j].k)
        /\ \A kind \in {"found", "grid_header", "total", "nt_not_found", "nt_info",
                        "nt_success", "legend"} : Count(out, kind) <= 1
        \* nothing is printed before the dimensions are read
        /\ Has(out, "found") =>
              /\ out[1] = [k |-> "found", width |-> width, height |-> height]
              /\ MainPath \in DOMAIN fs0
              /\ width = fs0[MainPath].width /\ height = fs0[MainPath].height
        /\ Has(out, "grid_header") => Has(out, "found")
        \* number_tileset starts after the grid is complete, on the same path
        /\ calls > 0 => /\ Has(out, "total")
                        /\ calls = 1
                        /\ tileset_path = MainPath
        /\ pc \in {"nt_exists", "nt_open", "nt_info", "nt_row", "nt_col", "nt_path",
                   "nt_save", "m_after_nt"} => calls = 1
        /\ \A i \in 1..Len(out) :
              out[i].k \in {"nt_not_found", "nt_info", "nt_success"} => calls = 1
        /\ \A i \in 1..Len(out) : out[i].k = "nt_not_found" => out[i].path = MainPath
        \* the legend
        /\ Has(out, "legend") =>
              /\ ret = "True"
              /\ pc \in {"m_with_exit", "done"}
              /\ Has(out, "nt_success")
        /\ (pc \in {"m_with_exit", "m_except", "done"} /\ ret = "True") => Has(out, "legend")
        /\ ret # "unset" => pc \in {"m_after_nt", "m_with_exit", "done"}

\* a finished run that printed everything, legend included
C7_Witness ==
    /\ entry = "main"
    /\ pc = "done"
    /\ Kinds(out) = <<"found", "grid_header", "row", "total", "nt_info", "nt_success", "legend">>
    /\ ret = "True"

\* a finished run in which number_tileset returned False and no legend came
C7_WitnessFalse ==
    /\ entry = "main"
    /\ pc = "done"
    /\ ret = "False"
    /\ Has(out, "nt_not_found")
    /\ ~Has(out, "legend")

InNumberTileset ==
    pc \in {"nt_exists", "nt_open", "nt_info", "nt_row", "nt_col", "nt_path", "nt_save"}

\* C8 as claimed: the handle opened to read the dimensions is released
\* before labelling begins, so it is not open while number_tileset runs.
C8_ReleasedBeforeLabelling ==
    (entry = "main" /\ InNumberTileset) => ~handle_open

\* C8 as the code has it: the handle opened to read the dimensions stays
\* open while print_tile_reference and number_tileset run, number_tileset
\* opening the same path a second time under it; it is released when the
\* `with` block is left, after number_tileset has returned or raised and
\* before any error message is printed.
C8_HeldUntilWithExit ==
    (entry = "main") =>
        /\ pc \in {"m_found", "ptr_header", "ptr_row", "ptr_col", "ptr_total", "m_call_nt",
                   "nt_exists", "nt_open", "nt_info", "nt_row", "nt_col", "nt_path",
                   "nt_save", "m_after_nt", "m_with_exit"} => handle_open
        /\ pc \in {"m_open", "m_except", "done"} => ~handle_open

\* number_tileset about to save, the entry point's handle still open
C8_Witness ==
    /\ entry = "main"
    /\ pc = "nt_save"
    /\ img # NoImage
    /\ handle_open

\* C9: the "file not found" message is printed only when the source file
\* was missing at the initial open; a failure raised later, inside
\* print_tile_reference or number_tileset, is reported with the generic
\* message.
C9_NotFoundOnlyAtOpen ==
    (entry = "main") =>
        /\ Has(out, "err_not_found") => excAt = "m_open"
        /\ (pc = "done" /\ excAt \in {"nt_open", "nt_save"}) => Has(out, "err_generic")

====
